---- MODULE Spec2Model ----
(***************************************************************************)
(* Model of the OV5640 autofocus-coprocessor control path of               *)
(* adafruit_pycamera/__init__.py (class PyCamera): the register transport  *)
(* (write_camera_register, read_camera_register, write_camera_list), the   *)
(* firmware loader (autofocus_init_from_bitstream) and the command/status  *)
(* handshake (_send_autofocus_command, autofocus, autofocus_status).       *)
(*                                                                         *)
(* The host program is single-threaded; every method is cut at its bus     *)
(* transactions, so that the coprocessor, which owns the status, ack and   *)
(* zone registers, can change them between any two transactions.  The      *)
(* transport on its own is cut further, at the taking and giving back of   *)
(* the lock of the I2C bus it shares with other devices.                   *)
(*                                                                         *)
(* The settings of the camera (mode, effect, resolution, LED level and     *)
(* colour) are modelled with their setters, each setter one step.          *)
(***************************************************************************)
EXTENDS Integers, Sequences, FiniteSets, TLC

VARIABLES
    sensor_name,  \* self.camera.sensor_name
    regs,         \* register file of the sensor behind self._camera_device
    op,           \* the public method running or last run
    pc,           \* position inside that method ("done": none is running)
    firmware,     \* autofocus_init_from_bitstream: the firmware argument
    reg_list,     \* write_camera_list: the reg_list argument
    command,      \* _send_autofocus_command: the command argument
    idx,          \* index of the loop the method is in
    handshakes,   \* autofocus: values returned by its handshakes so far
    zone_focus,   \* autofocus: the zone_focus list under construction
    ret,          \* value returned by the last method, as a tuple
    exc,          \* exception raised by the last method, or "none"
    log,          \* bus transactions and sleeps of the method, in order
    call_base,    \* Len(log) when the current handshake was entered
    hit_at,       \* poll loop: which read first saw the awaited value, or 0
    arg_reg,      \* write/read_camera_register called on its own: reg
    arg_value,    \* write_camera_register called on its own: value
    buf,          \* read_camera_register: the bytearray b after readinto
    bus_lock,     \* holder of the I2C bus lock: "free", "camera" or "other"
    dev_ptr,      \* the sensor's register pointer, set by an address write
    other_pc,     \* position of another user of the same bus
    written,      \* what the last stand-alone write to each address asked for
    pending,      \* command the coprocessor has taken and not completed, or 0
    served,       \* the coprocessor completed the command of this handshake
    mode,         \* self._mode
    effect,       \* self._effect
    resolution,   \* self._resolution
    led_level,    \* self._led_level
    led_color,    \* self._led_color
    nvm,          \* microcontroller.nvm, the cells the settings are kept in
    mode_label,   \* self._mode_label.text
    effect_label, \* self._effect_label.text
    res_label,    \* self._res_label.text
    special_effect,     \* self.camera.special_effect
    stop_motion_frame,  \* self.stop_motion_frame, -1 while it is not set
    brightness,   \* self.pixels.brightness, in thousandths
    pixels,       \* colours of the eight pixels of self.pixels
    setter_exc,   \* exception raised by the last setter, or "none"
    assigned      \* the last assignment: the setting and the integer given

(* State of the stand-alone register transport and of the bus lock. *)
transport == <<arg_reg, arg_value, buf, bus_lock, dev_ptr, other_pc, written>>

(* The settings of the camera and what their setters drive. *)
settings == <<mode, effect, resolution, led_level, led_color, nvm,
              mode_label, effect_label, res_label, special_effect,
              stop_motion_frame, brightness, pixels, setter_exc,
              assigned>>

(* State of the control path of the autofocus coprocessor. *)
control == <<sensor_name, regs, op, pc, firmware, reg_list, command, idx,
             handshakes, zone_focus, ret, exc, log, call_base, hit_at,
             transport, pending, served>>

vars == <<control, settings>>

----------------------------------------------------------------------------
(* Constants of the source. *)

REG_DLY == 65535                     \* 0xFFFF

OV5640_STAT_FIRMWAREBAD == 127       \* 0x7F
OV5640_STAT_STARTUP == 126           \* 0x7E
OV5640_STAT_IDLE == 112              \* 0x70
OV5640_STAT_FOCUSING == 0            \* 0x00
OV5640_STAT_FOCUSED == 16            \* 0x10

OV5640_CMD_TRIGGER_AUTOFOCUS == 3
OV5640_CMD_AUTO_AUTOFOCUS == 4
OV5640_CMD_RELEASE_FOCUS == 8

OV5640_CMD_MAIN == 12322             \* 0x3022
OV5640_CMD_ACK == 12323              \* 0x3023
OV5640_CMD_PARA0 == 12324            \* 0x3024
OV5640_CMD_PARA4 == 12328            \* 0x3028
OV5640_CMD_FW_STATUS == 12329        \* 0x3029

SYS_RESET == 12288                   \* 0x3000, the control register
SYS_RESET_AF == 32                   \* 0x20, holds the coprocessor in reset
FW_BASE == 32768                     \* 0x8000, instruction memory
ACK_PENDING == 1                     \* 0x01 written to the ack register
NumZonesOneMore == 5 + 1

NUM_ZONES == 5                       \* range(5) in autofocus
SUPPORTED_SENSOR == "OV5640"

LoadPollOneMore == 100 + 1

LOAD_POLL_ATTEMPTS == 100            \* range(100) in the loader

SendPollOneLess == 100 - 1

SEND_POLL_ATTEMPTS == 100            \* range(100) in the handshake

(* the finalization list releasing the reset before clearing the rest *)
finalize_release_first ==
    << 12288, 0, 12322, 0, 12323, 0, 12324, 0, 12325, 0, 12326, 0,
       12327, 0, 12328, 0, 12329, 127 >>

(* the finalization list leaving IDLE (0x70) in the status register *)
finalize_status_idle ==
    << 12322, 0, 12323, 0, 12324, 0, 12325, 0, 12326, 0, 12327, 0,
       12328, 0, 12329, 112, 12288, 0 >>

finalize_firmware_load ==
    << 12322, 0, 12323, 0, 12324, 0, 12325, 0, 12326, 0, 12327, 0,
       12328, 0, 12329, 127, 12288, 0 >>

----------------------------------------------------------------------------
(* Bounds of the model. *)

MaxLen == 3          \* longest firmware image
NumPatterns == 2     \* distinct firmware byte patterns
MaxPairs == 3        \* longest register list handed to write_camera_list
LongSpan == 40       \* indexes followed below the one of address 0xFFFF
LongOver == 2        \* indexes followed above it
MaxSetting == 14     \* settings are assigned values from -MaxSetting up
                     \* to MaxSetting

Range(s) == { s[j] : j \in DOMAIN s }

FwBytes == <<16, 32, 48>>            \* 0x10, 0x20, 0x30

Image(k, n) == [j \in 1..n |-> FwBytes[((j + k - 1) % 3) + 1]]

Images == { Image(k, n) : k \in 0..(NumPatterns - 1), n \in 0..MaxLen }

SensorNames == {"OV5640", "OV2640"}

Statuses == { OV5640_STAT_FIRMWAREBAD, OV5640_STAT_STARTUP, OV5640_STAT_IDLE,
              OV5640_STAT_FOCUSING, OV5640_STAT_FOCUSED }

Commands == { OV5640_CMD_TRIGGER_AUTOFOCUS, OV5640_CMD_AUTO_AUTOFOCUS,
              OV5640_CMD_RELEASE_FOCUS }

ZoneResults == { <<0, 0, 0, 0, 0>>, <<0, 3, 0, 0, 7>>, <<7, 0, 3, 0, 0>> }

ZoneRegs == OV5640_CMD_PARA0..OV5640_CMD_PARA4

Addrs == {SYS_RESET} \cup (OV5640_CMD_MAIN..OV5640_CMD_FW_STATUS)
           \cup { FW_BASE + i : i \in 0..(MaxLen - 1) } \cup {REG_DLY}

(* Pairs a caller may hand to write_camera_list. *)
ListPairs == { <<REG_DLY, 10>>, <<REG_DLY, 300>>,
               <<SYS_RESET, SYS_RESET_AF>>, <<OV5640_CMD_MAIN, 0>> }

RECURSIVE Flatten(_)
Flatten(ps) == IF ps = <<>> THEN <<>> ELSE Head(ps) \o Flatten(Tail(ps))

PairSeqs == UNION { [1..n -> ListPairs] : n \in 0..MaxPairs }

Lists == { Flatten(ps) : ps \in PairSeqs }

----------------------------------------------------------------------------
(* The bus: what goes over the wire and what the device makes of it. *)

(* the address sent low byte first *)
WriteBytesLowFirst(reg, value) == << reg % 256, reg \div 256, value >>

WriteBytes(reg, value) == << reg \div 256, reg % 256, value >>

ReadBytes(reg) == << reg \div 256, reg % 256 >>

DevAddr(b) == b[1] * 256 + b[2]

W(a, v) == <<"w", a, v>>
R(a) == <<"r", a>>
D(ms) == <<"d", ms>>

(* "b[0] = reg >> 8" and the like store into a bytearray.  A number that  *)
(* is no byte cannot be stored: CPython raises ValueError, and the builds  *)
(* of the interpreter this library runs on either raise as well or keep    *)
(* the low eight bits.                                                     *)
Fits(b) == \A j \in DOMAIN b : b[j] \in 0..255

StoreOutcomes(b) == IF Fits(b) THEN {"stored"} ELSE {"raised", "truncated"}

Stored(b) == [j \in DOMAIN b |-> b[j] % 256]

write_camera_register(reg, value) ==
    LET b == Stored(WriteBytes(reg, value)) IN
    /\ regs' = [regs EXCEPT ![DevAddr(b)] = b[3]]
    /\ log' = Append(log, W(DevAddr(b), b[3]))

ReadValue(reg) == regs[DevAddr(ReadBytes(reg))]

ReadEntry(reg) == R(DevAddr(ReadBytes(reg)))

(* time.sleep(num / den): the delay primitive, recorded in milliseconds. *)
Sleep(num, den) == D((num * 1000) \div den)

----------------------------------------------------------------------------
(* The coprocessor: it drives the status register, clears the ack          *)
(* register when it has completed the command in the main command register *)
(* and, for a trigger, leaves the per-zone results in the zone registers.  *)

CoprocStatus ==
    /\ \E s \in Statuses \ {regs[OV5640_CMD_FW_STATUS]} :
         regs' = [regs EXCEPT ![OV5640_CMD_FW_STATUS] = s]
    /\ UNCHANGED <<settings, transport, pending, served, sensor_name, op, pc,
                   firmware, reg_list, command, idx, handshakes, zone_focus,
                   ret, exc, log, call_base, hit_at>>

CoprocAck ==
    /\ regs[OV5640_CMD_ACK] # 0
    /\ IF regs[OV5640_CMD_MAIN] = OV5640_CMD_TRIGGER_AUTOFOCUS
       THEN \E z \in ZoneResults :
              regs' = [a \in Addrs |->
                         IF a = OV5640_CMD_ACK THEN 0
                         ELSE IF a \in ZoneRegs
                              THEN z[a - OV5640_CMD_PARA0 + 1]
                              ELSE regs[a]]
       ELSE regs' = [regs EXCEPT ![OV5640_CMD_ACK] = 0]
    /\ pending' = 0
    /\ served' = (pending # 0 /\ pc = "ack_poll")
    /\ UNCHANGED <<settings, transport, sensor_name, op, pc, firmware,
                   reg_list, command, idx, handshakes, zone_focus, ret, exc,
                   log, call_base, hit_at>>

(* The coprocessor seen closer: it works on the command it took from the   *)
(* main command register and clears the ack register when it has          *)
(* completed that command, however long ago the host wrote it.             *)
CoprocComplete ==
    /\ pending # 0
    /\ IF pending = OV5640_CMD_TRIGGER_AUTOFOCUS
       THEN \E z \in ZoneResults :
              regs' = [a \in Addrs |->
                         IF a = OV5640_CMD_ACK THEN 0
                         ELSE IF a \in ZoneRegs
                              THEN z[a - OV5640_CMD_PARA0 + 1]
                              ELSE regs[a]]
       ELSE regs' = [regs EXCEPT ![OV5640_CMD_ACK] = 0]
    /\ pending' = 0
    /\ served' = (served \/ pc = "ack_poll")
    /\ UNCHANGED <<settings, transport, sensor_name, op, pc, firmware,
                   reg_list, command, idx, handshakes, zone_focus, ret, exc,
                   log, call_base, hit_at>>

----------------------------------------------------------------------------
(* Entry of a public method: the locals of the previous one are gone. *)

Enter(name, fw, lst, cmd, first, raised) ==
    /\ pc = "done"
    /\ op' = name
    /\ pc' = first
    /\ firmware' = fw
    /\ reg_list' = lst
    /\ command' = cmd
    /\ idx' = 0
    /\ handshakes' = <<>>
    /\ zone_focus' = <<>>
    /\ ret' = <<>>
    /\ exc' = raised
    /\ log' = <<>>
    /\ call_base' = 0
    /\ hit_at' = 0
    /\ UNCHANGED <<settings, transport, pending, served, sensor_name, regs>>

----------------------------------------------------------------------------
(* write_camera_list *)

(* the sentinel not recognised *)
IsDelayNever(register) == FALSE

IsDelay(register) == register = REG_DLY

write_camera_list ==
    \E lst \in Lists : Enter("list", <<>>, lst, 0, "list", "none")

write_camera_list_step ==
    /\ pc = "list"
    /\ IF idx < Len(reg_list)
       THEN LET register == reg_list[idx + 1]
                value == reg_list[idx + 2]
            IN /\ IF IsDelay(register)
                  THEN /\ log' = Append(log, Sleep(value, 1000))
                       /\ UNCHANGED regs
                  ELSE write_camera_register(register, value)
               /\ idx' = idx + 2
               /\ UNCHANGED pc
       ELSE /\ pc' = IF op = "load" THEN "poll" ELSE "done"
            /\ idx' = 0
            /\ UNCHANGED <<regs, log>>
    /\ UNCHANGED <<settings, transport, pending, served, sensor_name, op,
                   firmware, reg_list, command, handshakes, zone_focus, ret,
                   exc, call_base, hit_at>>

----------------------------------------------------------------------------
(* autofocus_init_from_bitstream *)

(* the sensor check left out *)
SensorSupportedAlways(name) == TRUE

SensorSupported(name) == name = SUPPORTED_SENSOR

(* the image streamed one cell too high *)
StreamAddrOneUp(addr) == FW_BASE + addr + 1

StreamAddr(addr) == FW_BASE + addr

autofocus_init_from_bitstream ==
    \E fw \in Images :
        IF SensorSupported(sensor_name)
        THEN Enter("load", fw, <<>>, 0, "reset", "none")
        ELSE Enter("load", fw, <<>>, 0, "done", "UnsupportedSensor")

init_reset ==
    /\ pc = "reset"
    /\ write_camera_register(SYS_RESET, SYS_RESET_AF)
    /\ pc' = "stream"
    /\ idx' = 0
    /\ UNCHANGED <<settings, transport, pending, served, sensor_name, op,
                   firmware, reg_list, command, handshakes, zone_focus, ret,
                   exc, call_base, hit_at>>

(* the image streamed incrementally: cells that already hold the byte are *)
(* not written again                                                       *)
init_stream_delta ==
    /\ pc = "stream"
    /\ IF idx < Len(firmware)
       THEN /\ IF ReadValue(StreamAddr(idx)) = firmware[idx + 1]
               THEN UNCHANGED <<regs, log>>
               ELSE write_camera_register(StreamAddr(idx), firmware[idx + 1])
            /\ idx' = idx + 1
            /\ UNCHANGED <<pc, reg_list>>
       ELSE /\ pc' = "list"
            /\ reg_list' = finalize_firmware_load
            /\ idx' = 0
            /\ UNCHANGED <<regs, log>>
    /\ UNCHANGED <<settings, transport, pending, served, sensor_name, op,
                   firmware, command, handshakes, zone_focus, ret, exc,
                   call_base, hit_at>>

init_stream ==
    /\ pc = "stream"
    /\ IF idx < Len(firmware)
       THEN \E how \in StoreOutcomes(WriteBytes(StreamAddr(idx),
                                                firmware[idx + 1])) :
              IF how = "raised"
              THEN /\ exc' = "ValueError"
                   /\ pc' = "done"
                   /\ UNCHANGED <<regs, log, idx, reg_list>>
              ELSE /\ write_camera_register(StreamAddr(idx), firmware[idx + 1])
                   /\ idx' = idx + 1
                   /\ UNCHANGED <<pc, reg_list, exc>>
       ELSE /\ pc' = "list"
            /\ reg_list' = finalize_firmware_load
            /\ idx' = 0
            /\ UNCHANGED <<regs, log, exc>>
    /\ UNCHANGED <<settings, transport, pending, served, sensor_name, op,
                   firmware, command, handshakes, zone_focus, ret, call_base,
                   hit_at>>

init_poll ==
    /\ pc = "poll"
    /\ LET status == ReadValue(OV5640_CMD_FW_STATUS)
           idle == status = OV5640_STAT_IDLE
       IN /\ log' = IF idle
                    THEN Append(log, ReadEntry(OV5640_CMD_FW_STATUS))
                    ELSE Append(Append(log, ReadEntry(OV5640_CMD_FW_STATUS)),
                                Sleep(1, 100))
          /\ hit_at' = IF status = 112 /\ hit_at = 0 THEN idx + 1 ELSE hit_at
          /\ idx' = IF idle THEN idx ELSE idx + 1
          /\ pc' = IF idle \/ idx + 1 >= LOAD_POLL_ATTEMPTS
                   THEN "done" ELSE "poll"
          /\ exc' = IF ~idle /\ idx + 1 >= LOAD_POLL_ATTEMPTS
                    THEN "LoadTimeout" ELSE exc
    /\ UNCHANGED <<settings, transport, pending, served, sensor_name, regs,
                   op, firmware, reg_list, command, handshakes, zone_focus,
                   ret, call_base>>

----------------------------------------------------------------------------
(* autofocus_status: one read of the status register. *)

autofocus_status ==
    Enter("status", <<>>, <<>>, 0, "status", "none")

autofocus_status_read ==
    /\ pc = "status"
    /\ log' = Append(log, ReadEntry(OV5640_CMD_FW_STATUS))
    /\ ret' = << ReadValue(OV5640_CMD_FW_STATUS) >>
    /\ pc' = "done"
    /\ UNCHANGED <<settings, transport, pending, served, sensor_name, regs,
                   op, firmware, reg_list, command, idx, handshakes,
                   zone_focus, exc, call_base, hit_at>>

----------------------------------------------------------------------------
(* _send_autofocus_command, called on its own or twice by autofocus. *)

send_autofocus_command ==
    \E cmd \in Commands : Enter("send", <<>>, <<>>, cmd, "ack_clear", "none")

(* the handshake without its ack-clear write *)
send_ack_clear_skipped ==
    /\ pc = "ack_clear"
    /\ call_base' = Len(log)
    /\ pc' = "cmd_write"
    /\ idx' = 0
    /\ hit_at' = 0
    /\ served' = FALSE
    /\ UNCHANGED <<settings, transport, pending, sensor_name, regs, log, op,
                   firmware, reg_list, command, handshakes, zone_focus, ret,
                   exc>>

send_ack_clear ==
    /\ pc = "ack_clear"
    /\ call_base' = Len(log)
    /\ write_camera_register(OV5640_CMD_ACK, ACK_PENDING)
    /\ pc' = "cmd_write"
    /\ idx' = 0
    /\ hit_at' = 0
    /\ served' = FALSE
    /\ UNCHANGED <<settings, transport, pending, sensor_name, op, firmware,
                   reg_list, command, handshakes, zone_focus, ret, exc>>

(* the command written only when the status read before it is a ready one *)
send_cmd_write_if_ready ==
    /\ pc = "cmd_write"
    /\ IF ReadValue(OV5640_CMD_FW_STATUS) \in
            {OV5640_STAT_IDLE, OV5640_STAT_FOCUSING, OV5640_STAT_FOCUSED}
       THEN /\ regs' = [regs EXCEPT ![OV5640_CMD_MAIN] = command]
            /\ log' = Append(Append(log, ReadEntry(OV5640_CMD_FW_STATUS)),
                             W(OV5640_CMD_MAIN, command))
            /\ pending' = command
       ELSE /\ log' = Append(log, ReadEntry(OV5640_CMD_FW_STATUS))
            /\ UNCHANGED <<regs, pending>>
    /\ pc' = "ack_poll"
    /\ UNCHANGED <<settings, transport, served, sensor_name, op, firmware,
                   reg_list, command, idx, handshakes, zone_focus, ret, exc,
                   call_base, hit_at>>

send_cmd_write ==
    /\ pc = "cmd_write"
    /\ write_camera_register(OV5640_CMD_MAIN, command)
    /\ pending' = regs'[OV5640_CMD_MAIN]
    /\ pc' = "ack_poll"
    /\ UNCHANGED <<settings, transport, served, sensor_name, op, firmware,
                   reg_list, command, idx, handshakes, zone_focus, ret, exc,
                   call_base, hit_at>>

(* autofocus's reaction to the value b its handshake number n returned:   *)
(* where it goes next.                                                     *)
(* autofocus checking only its first handshake *)
AfterHandshakeSecondUnchecked(n, b) ==
    IF n = 1 THEN (IF b THEN "ack_clear" ELSE "done")
    ELSE "zones"

(* autofocus checking only its second handshake *)
AfterHandshakeFirstUnchecked(n, b) ==
    IF n = 1 THEN "ack_clear"
    ELSE IF b THEN "zones" ELSE "done"

AfterHandshake(n, b) ==
    IF ~b THEN "done"
    ELSE IF n = 1 THEN "ack_clear"
    ELSE "zones"

FirstCommand == OV5640_CMD_RELEASE_FOCUS

SecondCommand == OV5640_CMD_TRIGGER_AUTOFOCUS

(* [False] * 5: bool is a subclass of int and False == 0. *)
AllZero == [i \in 1..NUM_ZONES |-> 0]

(* the ack register read in the first iteration only, later iterations    *)
(* deciding on the value kept from it                                      *)
send_ack_poll_cached ==
    /\ pc = "ack_poll"
    /\ LET ack == IF idx = 0 THEN ReadValue(OV5640_CMD_ACK) ELSE buf[1]
           issued == IF idx = 0
                     THEN Append(log, ReadEntry(OV5640_CMD_ACK)) ELSE log
           finished == ack = 0
           returns == finished \/ idx + 1 >= SEND_POLL_ATTEMPTS
           n == Len(handshakes) + 1
       IN /\ buf' = <<ack, buf[2]>>
          /\ log' = IF finished THEN issued ELSE Append(issued, Sleep(1, 100))
          /\ hit_at' = IF ack = 0 /\ hit_at = 0 THEN idx + 1 ELSE hit_at
          /\ idx' = IF finished THEN idx ELSE idx + 1
          /\ IF ~returns
             THEN UNCHANGED <<pc, ret, handshakes, command>>
             ELSE IF op = "send"
             THEN /\ pc' = "done"
                  /\ ret' = << finished >>
                  /\ UNCHANGED <<handshakes, command>>
             ELSE /\ handshakes' = Append(handshakes, finished)
                  /\ pc' = AfterHandshake(n, finished)
                  /\ ret' = IF AfterHandshake(n, finished) = "done"
                            THEN AllZero ELSE ret
                  /\ command' = IF AfterHandshake(n, finished) = "ack_clear"
                                THEN SecondCommand ELSE command
    /\ UNCHANGED <<settings, arg_reg, arg_value, bus_lock, dev_ptr, other_pc,
                   written, pending, served, sensor_name, regs, op, firmware,
                   reg_list, zone_focus, exc, call_base>>

send_ack_poll ==
    /\ pc = "ack_poll"
    /\ LET ack == ReadValue(OV5640_CMD_ACK)
           finished == ack = 0
           returns == finished \/ idx + 1 >= SEND_POLL_ATTEMPTS
           n == Len(handshakes) + 1
       IN /\ log' = IF finished
                    THEN Append(log, ReadEntry(OV5640_CMD_ACK))
                    ELSE Append(Append(log, ReadEntry(OV5640_CMD_ACK)),
                                Sleep(1, 100))
          /\ hit_at' = IF ack = 0 /\ hit_at = 0 THEN idx + 1 ELSE hit_at
          /\ idx' = IF finished THEN idx ELSE idx + 1
          /\ IF ~returns
             THEN UNCHANGED <<pc, ret, handshakes, command>>
             ELSE IF op = "send"
             THEN /\ pc' = "done"
                  /\ ret' = << finished >>
                  /\ UNCHANGED <<handshakes, command>>
             ELSE /\ handshakes' = Append(handshakes, finished)
                  /\ pc' = AfterHandshake(n, finished)
                  /\ ret' = IF AfterHandshake(n, finished) = "done"
                            THEN AllZero ELSE ret
                  /\ command' = IF AfterHandshake(n, finished) = "ack_clear"
                                THEN SecondCommand ELSE command
    /\ UNCHANGED <<settings, transport, pending, served, sensor_name, regs,
                   op, firmware, reg_list, zone_focus, exc, call_base>>

----------------------------------------------------------------------------
(* autofocus *)

(* the zone registers read from the last one down *)
ZoneAddrDescending(i) == OV5640_CMD_PARA4 - i

ZoneAddr(i) == OV5640_CMD_PARA0 + i

autofocus ==
    Enter("autofocus", <<>>, <<>>, FirstCommand, "ack_clear", "none")

(* the zone registers read and then cleared *)
autofocus_zone_read_clearing ==
    /\ pc = "zones"
    /\ LET i == Len(zone_focus)
           zf == Append(zone_focus, ReadValue(ZoneAddr(i)))
       IN /\ log' = Append(Append(log, ReadEntry(ZoneAddr(i))),
                           W(ZoneAddr(i), 0))
          /\ regs' = [regs EXCEPT ![ZoneAddr(i)] = 0]
          /\ zone_focus' = zf
          /\ pc' = IF i + 1 >= NUM_ZONES THEN "done" ELSE "zones"
          /\ ret' = IF i + 1 >= NUM_ZONES THEN zf ELSE ret
    /\ UNCHANGED <<settings, transport, pending, served, sensor_name, op,
                   firmware, reg_list, command, idx, handshakes, exc,
                   call_base, hit_at>>

autofocus_zone_read ==
    /\ pc = "zones"
    /\ LET i == Len(zone_focus)
           zf == Append(zone_focus, ReadValue(ZoneAddr(i)))
       IN /\ log' = Append(log, ReadEntry(ZoneAddr(i)))
          /\ zone_focus' = zf
          /\ pc' = IF i + 1 >= NUM_ZONES THEN "done" ELSE "zones"
          /\ ret' = IF i + 1 >= NUM_ZONES THEN zf ELSE ret
    /\ UNCHANGED <<settings, transport, pending, served, sensor_name, regs,
                   op, firmware, reg_list, command, idx, handshakes, exc,
                   call_base, hit_at>>

----------------------------------------------------------------------------
(* write_camera_register and read_camera_register called on their own, cut *)
(* at the steps of "with self._camera_device as i2c:": I2CDevice takes the *)
(* lock of the I2C bus on entry and gives it back on exit.  The bus is     *)
(* shared (board.I2C() is also handed to the AW9523, the LIS3DH and        *)
(* espcamera, and i2c_scan locks it): another user that holds the lock may *)
(* address the sensor and leave its register pointer anywhere.             *)

ProbeRegs == {SYS_RESET, OV5640_CMD_MAIN, FW_BASE}

ProbeValues == {0, 90, 255}

ACQ == <<"acquire">>
REL == <<"release">>
A(a) == <<"a", a>>
O(a) == <<"o", a>>

CameraHoldsBus ==
    pc \in {"w_write", "w_exit", "r_write", "r_readinto", "r_exit"}

EnterTransport(name, r, v, b, how) ==
    /\ pc = "done"
    /\ op' = name
    /\ pc' = IF how = "raised" THEN "done"
             ELSE IF name = "write" THEN "w_enter" ELSE "r_enter"
    /\ exc' = IF how = "raised" THEN "ValueError" ELSE "none"
    /\ arg_reg' = r
    /\ arg_value' = v
    /\ buf' = IF how = "raised" THEN buf ELSE Stored(b)
    /\ firmware' = <<>>
    /\ reg_list' = <<>>
    /\ command' = 0
    /\ idx' = 0
    /\ handshakes' = <<>>
    /\ zone_focus' = <<>>
    /\ ret' = <<>>
    /\ log' = <<>>
    /\ call_base' = 0
    /\ hit_at' = 0
    /\ UNCHANGED <<settings, sensor_name, regs, bus_lock, dev_ptr, other_pc,
                   written, pending, served>>

write_camera_register_call ==
    \E r \in ProbeRegs, v \in ProbeValues :
        \E how \in StoreOutcomes(WriteBytes(r, v)) :
            EnterTransport("write", r, v, WriteBytes(r, v), how)

read_camera_register_call ==
    \E r \in ProbeRegs :
        \E how \in StoreOutcomes(ReadBytes(r)) :
            EnterTransport("read", r, 0, ReadBytes(r), how)

(* Instruction memory: the addresses from 0x8000 to the last one, 0xFFFF. *)
MEMORY_CELLS == 65536 - FW_BASE

StreamIndexes ==
    (0..LongOver) \cup ((MEMORY_CELLS - LongSpan)..(MEMORY_CELLS + LongOver))

(* "for addr, val in enumerate(firmware):                                  *)
(*      self.write_camera_register(0x8000 + addr, val)", at one addr.      *)
init_stream_write_call ==
    /\ op = "none"
    /\ \E addr \in StreamIndexes, val \in Range(FwBytes) :
         \E how \in StoreOutcomes(WriteBytes(StreamAddr(addr), val)) :
             EnterTransport("write", StreamAddr(addr), val,
                            WriteBytes(StreamAddr(addr), val), how)

(* I2CDevice.__enter__: "while not self.i2c.try_lock(): sleep(0)". *)
device_enter ==
    /\ pc \in {"w_enter", "r_enter"}
    /\ bus_lock = "free"
    /\ bus_lock' = "camera"
    /\ pc' = IF pc = "w_enter" THEN "w_write" ELSE "r_write"
    /\ log' = Append(log, ACQ)
    /\ UNCHANGED <<settings, sensor_name, regs, op, firmware, reg_list,
                   command, idx, handshakes, zone_focus, ret, exc, call_base,
                   hit_at, arg_reg, arg_value, buf, dev_ptr, other_pc,
                   written, pending, served>>

(* I2CDevice.__exit__ unlocks the bus; the method then returns. *)
device_exit ==
    /\ pc \in {"w_exit", "r_exit"}
    /\ bus_lock' = "free"
    /\ pc' = "done"
    /\ log' = Append(log, REL)
    /\ ret' = IF op = "read" THEN << buf[1] >> ELSE ret
    /\ UNCHANGED <<settings, sensor_name, regs, op, firmware, reg_list,
                   command, idx, handshakes, zone_focus, exc, call_base,
                   hit_at, arg_reg, arg_value, buf, dev_ptr, other_pc,
                   written, pending, served>>

(* i2c.write(b) of the three bytes of write_camera_register. *)
write_camera_register_write ==
    /\ pc = "w_write"
    /\ regs' = [regs EXCEPT ![DevAddr(buf)] = buf[3]]
    /\ dev_ptr' = DevAddr(buf)
    /\ log' = Append(log, W(DevAddr(buf), buf[3]))
    /\ written' = [a \in DOMAIN written \cup {arg_reg} |->
                     IF a = arg_reg THEN arg_value ELSE written[a]]
    /\ pc' = "w_exit"
    /\ UNCHANGED <<settings, sensor_name, op, firmware, reg_list, command,
                   idx, handshakes, zone_focus, ret, exc, call_base, hit_at,
                   arg_reg, arg_value, buf, bus_lock, other_pc, pending,
                   served>>

(* the address write followed by the end of the bus acquisition *)
read_camera_register_write_unlocked ==
    /\ pc = "r_write"
    /\ dev_ptr' = DevAddr(buf)
    /\ log' = Append(Append(log, A(DevAddr(buf))), REL)
    /\ pc' = "r_readinto"
    /\ bus_lock' = "free"
    /\ UNCHANGED <<settings, sensor_name, regs, op, firmware, reg_list,
                   command, idx, handshakes, zone_focus, ret, exc, call_base,
                   hit_at, arg_reg, arg_value, buf, other_pc, written,
                   pending, served>>

(* i2c.write(b) of read_camera_register: the two address bytes. *)
read_camera_register_write ==
    /\ pc = "r_write"
    /\ dev_ptr' = DevAddr(buf)
    /\ log' = Append(log, A(DevAddr(buf)))
    /\ pc' = "r_readinto"
    /\ UNCHANGED <<settings, sensor_name, regs, op, firmware, reg_list,
                   command, idx, handshakes, zone_focus, ret, exc, call_base,
                   hit_at, arg_reg, arg_value, buf, bus_lock, other_pc,
                   written, pending, served>>

(* i2c.readinto(b, end=1): one byte from where the pointer stands. *)
read_camera_register_readinto ==
    /\ pc = "r_readinto"
    /\ buf' = [buf EXCEPT ![1] = regs[dev_ptr]]
    /\ log' = Append(log, R(dev_ptr))
    /\ pc' = "r_exit"
    /\ UNCHANGED <<settings, sensor_name, regs, op, firmware, reg_list,
                   command, idx, handshakes, zone_focus, ret, exc, call_base,
                   hit_at, arg_reg, arg_value, bus_lock, dev_ptr, other_pc,
                   written, pending, served>>

(* Another user of the bus: lock, one transaction, unlock. *)
other_lock ==
    /\ other_pc = "idle"
    /\ bus_lock = "free"
    /\ bus_lock' = "other"
    /\ other_pc' = "locked"
    /\ UNCHANGED <<settings, sensor_name, regs, op, pc, firmware, reg_list,
                   command, idx, handshakes, zone_focus, ret, exc, log,
                   call_base, hit_at, arg_reg, arg_value, buf, dev_ptr,
                   written, pending, served>>

other_transaction ==
    /\ other_pc = "locked"
    /\ \E a \in ProbeRegs : /\ dev_ptr' = a
                            /\ log' = IF pc \in {"r_readinto", "r_exit"}
                                      THEN Append(log, O(a)) ELSE log
    /\ other_pc' = "unlock"
    /\ UNCHANGED <<settings, sensor_name, regs, op, pc, firmware, reg_list,
                   command, idx, handshakes, zone_focus, ret, exc, call_base,
                   hit_at, arg_reg, arg_value, buf, bus_lock, written,
                   pending, served>>

other_unlock ==
    /\ other_pc = "unlock"
    /\ bus_lock' = "free"
    /\ other_pc' = "idle"
    /\ UNCHANGED <<settings, sensor_name, regs, op, pc, firmware, reg_list,
                   command, idx, handshakes, zone_focus, ret, exc, log,
                   call_base, hit_at, arg_reg, arg_value, buf, dev_ptr,
                   written, pending, served>>

----------------------------------------------------------------------------
(* A bus-level failure: i2c.write or i2c.readinto raises OSError inside    *)
(* the with block of the transport.  No method of the control path catches *)
(* it, so the public method that was running ends with it.                 *)

X(a) == <<"x", a>>

(* The method running is about to issue a bus transaction. *)
AboutToTransact ==
    \/ pc \in {"reset", "poll", "status", "ack_clear", "cmd_write",
               "ack_poll", "zones"}
    \/ pc = "stream" /\ idx < Len(firmware)
    \/ pc = "list" /\ idx < Len(reg_list) /\ ~IsDelay(reg_list[idx + 1])

(* The register that transaction addresses. *)
NextAddr ==
    CASE pc = "reset" -> SYS_RESET
      [] pc = "stream" -> StreamAddr(idx)
      [] pc = "list" -> reg_list[idx + 1]
      [] pc \in {"poll", "status"} -> OV5640_CMD_FW_STATUS
      [] pc \in {"ack_clear", "ack_poll"} -> OV5640_CMD_ACK
      [] pc = "cmd_write" -> OV5640_CMD_MAIN
      [] pc = "zones" -> ZoneAddr(Len(zone_focus))

(* the failure caught by autofocus and turned into its all-zero result *)
transport_error_swallowed ==
    /\ AboutToTransact
    /\ log' = Append(log, X(DevAddr(ReadBytes(NextAddr))))
    /\ pc' = "done"
    /\ exc' = IF op = "autofocus" THEN exc ELSE "TransportError"
    /\ ret' = IF op = "autofocus" THEN AllZero ELSE ret
    /\ UNCHANGED <<settings, transport, pending, served, sensor_name, regs,
                   op, firmware, reg_list, command, idx, handshakes,
                   zone_focus, call_base, hit_at>>

transport_error ==
    /\ AboutToTransact
    /\ log' = Append(log, X(DevAddr(ReadBytes(NextAddr))))
    /\ pc' = "done"
    /\ exc' = "TransportError"
    /\ UNCHANGED <<settings, transport, pending, served, sensor_name, regs,
                   op, firmware, reg_list, command, idx, handshakes,
                   zone_focus, ret, call_base, hit_at>>

----------------------------------------------------------------------------
(* The settings: capture mode, effect, resolution, LED level and LED       *)
(* colour.  Each setter brings the value it is given into its table by     *)
(* (value + len(table)) % len(table); mode, effect and resolution are also *)
(* kept in microcontroller.nvm and read back from it by the constructor.   *)

NVM_RESOLUTION == 1
NVM_EFFECT == 2
NVM_MODE == 3

NvmCells == {NVM_RESOLUTION, NVM_EFFECT, NVM_MODE}

NUM_PIXELS == 8                      \* neopixel.NeoPixel(board.A1, 8, ...)

led_levels == <<0, 100, 200, 500, 1000>>   \* 0.0, 0.1, 0.2, 0.5, 1.0

(* [colorwheel(i * (256 // 8)) for i in range(8)], each colour left as the *)
(* call that gives it                                                      *)
Wheel == [i \in 1..8 |-> <<"colorwheel", (i - 1) * (256 \div 8)>>]

colors ==
    << 16777215, 16711680, 16776960, 65280, 65535, 255, 16711935, Wheel >>

resolutions ==
    << "240x240", "320x240", "640x480", "800x600", "1024x768", "1280x720",
       "1280x1024", "1600x1200", "1920x1080", "2048x1536", "2560x1440",
       "2560x1600", "2560x1920" >>

effects ==
    << "Normal", "Invert", "B&W", "Reddish", "Greenish", "Bluish", "Sepia",
       "Solarize" >>

modes == << "JPEG", "GIF", "GBOY", "STOP" >>

(* Values assigned to the settings: below minus the length of every table, *)
(* just below zero, inside every table, and beyond every table.            *)
Settings == {0 - MaxSetting, -1, 1, MaxSetting}

(* Names assigned to the resolution; "160x120" is not in the table. *)
ResolutionNames == {"240x240", "2560x1920", "160x120"}

(* Contents of the three cells when the constructor reads them. *)
NvmBytes == {0, 255}

ErasedNvm == [c \in NvmCells |-> 255]

(* table[i] of a list or tuple: a negative i counts from the end. *)
Item(table, i) == IF i >= 0 THEN table[i + 1] ELSE table[Len(table) + i + 1]

(* table.index(x) *)
IndexOf(table, x) == (CHOOSE j \in DOMAIN table : table[j] = x) - 1

(* the remainder taking the sign of the value, as in C *)
WrapTruncating(setting, table) ==
    LET n == Len(table)
        s == setting + n
    IN IF s >= 0 THEN s % n ELSE 0 - ((0 - s) % n)

Wrap(setting, table) == (setting + Len(table)) % Len(table)

(* isinstance(colors, int): every entry of colors but the last one. *)
IsIntColor(color) == color < Len(colors) - 1

(* What the pixels show once led_color's setter has run for this index. *)
Filled(color) ==
    IF IsIntColor(color)
    THEN [i \in 1..NUM_PIXELS |-> Item(colors, color)]
    ELSE Item(colors, color)

(* The "if isinstance(res, int):" block of the resolution setter. *)
resolution_store(res) ==
    LET r == Wrap(res, resolutions)
    IN /\ assigned' = <<"resolution", res>>
       /\ nvm' = [nvm EXCEPT ![NVM_RESOLUTION] = r]
       /\ resolution' = r
       /\ res_label' = Item(resolutions, r)
       /\ setter_exc' = "none"
       /\ UNCHANGED <<control, mode, effect, led_level, led_color,
                      mode_label, effect_label, special_effect,
                      stop_motion_frame, brightness, pixels>>

resolution_setter ==
    \E res \in Settings : resolution_store(res)

resolution_setter_str ==
    \E res \in ResolutionNames :
        IF res \notin Range(resolutions)
        THEN /\ setter_exc' = "RuntimeError"
             /\ UNCHANGED <<control, mode, effect, resolution, led_level,
                            led_color, nvm, mode_label, effect_label,
                            res_label, special_effect, stop_motion_frame,
                            brightness, pixels, assigned>>
        ELSE resolution_store(IndexOf(resolutions, res))

(* The mode setter; outside GIF and GBOY it assigns the resolution to      *)
(* itself, which runs the resolution setter, before it writes its own cell. *)
mode_setter ==
    \E given \in Settings :
        LET setting == Wrap(given, modes)
            kick == Item(modes, setting) \notin {"GIF", "GBOY"}
            res == Wrap(resolution, resolutions)
        IN /\ assigned' = <<"mode", given>>
           /\ mode' = setting
           /\ mode_label' = Item(modes, setting)
           /\ stop_motion_frame' = IF Item(modes, setting) = "STOP"
                                   THEN 0 ELSE stop_motion_frame
           /\ resolution' = IF kick THEN res ELSE resolution
           /\ res_label' = IF kick THEN Item(resolutions, res) ELSE ""
           /\ nvm' = [nvm EXCEPT ![NVM_RESOLUTION] = IF kick THEN res ELSE @,
                                 ![NVM_MODE] = setting]
           /\ setter_exc' = "none"
           /\ UNCHANGED <<control, effect, led_level, led_color,
                          effect_label, special_effect, brightness, pixels>>

effect_setter ==
    \E given \in Settings :
        LET setting == Wrap(given, effects)
        IN /\ assigned' = <<"effect", given>>
           /\ effect' = setting
           /\ effect_label' = Item(effects, setting)
           /\ special_effect' = setting
           /\ nvm' = [nvm EXCEPT ![NVM_EFFECT] = setting]
           /\ setter_exc' = "none"
           /\ UNCHANGED <<control, mode, resolution, led_level, led_color,
                          mode_label, res_label, stop_motion_frame,
                          brightness, pixels>>

led_color_setter ==
    \E new_color \in Settings :
        LET color == Wrap(new_color, colors)
        IN /\ assigned' = <<"led_color", new_color>>
           /\ led_color' = color
           /\ pixels' = Filled(color)
           /\ setter_exc' = "none"
           /\ UNCHANGED <<control, mode, effect, resolution, led_level, nvm,
                          mode_label, effect_label, res_label,
                          special_effect, stop_motion_frame, brightness>>

(* The level setter ends by assigning led_color to itself. *)
led_level_setter ==
    \E new_level \in Settings :
        LET level == Wrap(new_level, led_levels)
            color == Wrap(led_color, colors)
        IN /\ assigned' = <<"led_level", new_level>>
           /\ led_level' = level
           /\ brightness' = Item(led_levels, level)
           /\ led_color' = color
           /\ pixels' = Filled(color)
           /\ setter_exc' = "none"
           /\ UNCHANGED <<control, mode, effect, resolution, nvm, mode_label,
                          effect_label, res_label, special_effect,
                          stop_motion_frame>>

(* The end of the constructor, with the cells holding n0: led_color = 0,   *)
(* led_level = 0, then effect, resolution and mode assigned from the cells. *)
Constructed(n0) ==
    LET e == Wrap(n0[NVM_EFFECT], effects)
        r == Wrap(n0[NVM_RESOLUTION], resolutions)
        m == Wrap(n0[NVM_MODE], modes)
        kick == Item(modes, m) \notin {"GIF", "GBOY"}
    IN /\ led_color = 0
       /\ led_level = 0
       /\ brightness = Item(led_levels, 0)
       /\ pixels = Filled(0)
       /\ effect = e
       /\ effect_label = Item(effects, e)
       /\ special_effect = e
       /\ resolution = r
       /\ res_label = IF kick THEN Item(resolutions, r) ELSE ""
       /\ mode = m
       /\ mode_label = Item(modes, m)
       /\ stop_motion_frame = IF Item(modes, m) = "STOP" THEN 0 ELSE -1
       /\ nvm = [c \in NvmCells |->
                   IF c = NVM_EFFECT THEN e
                   ELSE IF c = NVM_RESOLUTION THEN r ELSE m]
       /\ setter_exc = "none"
       /\ assigned = <<"mode", n0[NVM_MODE]>>

----------------------------------------------------------------------------

InitControl ==
    /\ sensor_name \in SensorNames
    /\ regs = [a \in Addrs |->
                 IF a = OV5640_CMD_FW_STATUS THEN OV5640_STAT_STARTUP ELSE 0]
    /\ op = "none"
    /\ pc = "done"
    /\ firmware = <<>>
    /\ reg_list = <<>>
    /\ command = 0
    /\ idx = 0
    /\ handshakes = <<>>
    /\ zone_focus = <<>>
    /\ ret = <<>>
    /\ exc = "none"
    /\ log = <<>>
    /\ call_base = 0
    /\ hit_at = 0
    /\ arg_reg = 0
    /\ arg_value = 0
    /\ buf = <<0, 0>>
    /\ bus_lock = "free"
    /\ dev_ptr = SYS_RESET
    /\ other_pc = "idle"
    /\ written = <<>>
    /\ pending = 0
    /\ served = FALSE

(* The camera constructed with the settings cells erased. *)
Init == InitControl /\ Constructed(ErasedNvm)

(* The firmware loader and the status query, with the coprocessor driving  *)
(* the status register.                                                    *)
NextLoad ==
    \/ autofocus_init_from_bitstream
    \/ init_reset
    \/ init_stream
    \/ write_camera_list_step
    \/ init_poll
    \/ autofocus_status
    \/ autofocus_status_read
    \/ CoprocStatus

SpecLoad == Init /\ [][NextLoad]_vars

(* The command path with the coprocessor completing commands. *)
NextCmd ==
    \/ send_autofocus_command
    \/ send_ack_clear
    \/ send_cmd_write
    \/ send_ack_poll
    \/ autofocus
    \/ autofocus_zone_read
    \/ autofocus_status
    \/ autofocus_status_read
    \/ CoprocAck

SpecCmd == Init /\ [][NextCmd]_vars

(* The register transport applied to caller-supplied register lists. *)
NextList ==
    \/ write_camera_list
    \/ write_camera_list_step

SpecList == Init /\ [][NextList]_vars

(* The call write_camera_register(0x8000 + addr, val) of the loader's      *)
(* streaming loop, for one index of an image long enough to have it.       *)
NextAddress ==
    \/ init_stream_write_call
    \/ device_enter
    \/ write_camera_register_write
    \/ device_exit

SpecAddress == Init /\ [][NextAddress]_vars

(* The register transport called on its own, on a bus it shares. *)
NextBus ==
    \/ write_camera_register_call
    \/ read_camera_register_call
    \/ device_enter
    \/ write_camera_register_write
    \/ read_camera_register_write
    \/ read_camera_register_readinto
    \/ device_exit
    \/ other_lock
    \/ other_transaction
    \/ other_unlock

SpecBus == Init /\ [][NextBus]_vars

(* Stand-alone handshakes against a coprocessor that completes each        *)
(* command it took, also one whose handshake has already timed out.        *)
NextRace ==
    \/ send_autofocus_command
    \/ send_ack_clear
    \/ send_cmd_write
    \/ send_ack_poll
    \/ CoprocComplete

SpecRace == Init /\ [][NextRace]_vars

(* The operations of the control path on a bus that may fail and          *)
(* with the coprocessor driving status, ack and zones.  A run exercises    *)
(* the loader or the command path: the methods are independent of what     *)
(* earlier calls of the other group left in the registers they do not      *)
(* read.  The supported sensor is attached: with any other one no         *)
(* operation of the loader reaches the bus.                                *)
InitCore == Init /\ sensor_name = SUPPORTED_SENSOR

LoaderOps == {"none", "load"}

(* The images loaded here: one of every length.  What the bytes are plays  *)
(* no part in failures, polling or the number of transactions.             *)
CoreImages == { Image(0, n) : n \in 0..MaxLen }

CommandOps == {"none", "send", "autofocus", "status"}

NextCore ==
    \/ /\ op \in LoaderOps
       /\ \/ autofocus_init_from_bitstream /\ firmware' \in CoreImages
          \/ init_reset
          \/ init_stream
          \/ write_camera_list_step
          \/ init_poll
    \/ /\ op = "load"
       /\ CoprocStatus
    \/ /\ op \in CommandOps
       /\ \/ send_autofocus_command
          \/ send_ack_clear
          \/ send_cmd_write
          \/ send_ack_poll
          \/ autofocus
          \/ autofocus_zone_read
          \/ autofocus_status
          \/ autofocus_status_read
          \/ CoprocAck
    \/ transport_error

SpecCore == InitCore /\ [][NextCore]_vars

(* The setters of the settings, on a camera constructed with any content   *)
(* of the settings cells.                                                  *)
InitSettings ==
    /\ InitControl
    /\ sensor_name = SUPPORTED_SENSOR
    /\ \E n0 \in [NvmCells -> NvmBytes] : Constructed(n0)

NextSettings ==
    \/ mode_setter
    \/ effect_setter
    \/ resolution_setter
    \/ resolution_setter_str
    \/ led_level_setter
    \/ led_color_setter

SpecSettings == InitSettings /\ [][NextSettings]_vars

----------------------------------------------------------------------------
(* What the claims read off the log. *)

IsDelayEntry(e) == e[1] = "d"
IsWrite(e) == e[1] = "w"
IsRead(e) == e[1] = "r"

BusOf(s) == SelectSeq(s, LAMBDA e : ~IsDelayEntry(e))

ReadsOf(s, a) == Len(SelectSeq(s, LAMBDA e : IsRead(e) /\ e[2] = a))

LoadRan == op = "load" /\ sensor_name = "OV5640"

LoadDone == LoadRan /\ pc = "done"

----------------------------------------------------------------------------
(* C1: with the supported sensor attached, a load succeeds exactly when    *)
(* one of its first 100 status reads returns IDLE (0x70): it then stops at *)
(* that read; otherwise it fails with the load-timeout error after exactly *)
(* 100 status reads.                                                       *)
C1_LoadSucceedsIffIdleWithin100 ==
    LoadDone =>
        /\ exc \in {"none", "LoadTimeout"}
        /\ (exc = "none") <=> (hit_at \in 1..100)
        /\ exc = "none" => ReadsOf(log, 12329) = hit_at
        /\ exc = "LoadTimeout" => (ReadsOf(log, 12329) = 100 /\ hit_at = 0)

(* A load that saw IDLE on its 100th status read. *)
C1_Witness == LoadDone /\ exc = "none" /\ hit_at = 100

----------------------------------------------------------------------------
(* A handshake has just returned: its value, its number within autofocus,  *)
(* its command and its part of the log are still at hand.                  *)

HandshakeReturned ==
    \/ op = "send" /\ pc = "done"
    \/ /\ op = "autofocus"
       /\ handshakes # <<>>
       /\ \/ pc = "ack_clear"
          \/ pc = "zones" /\ zone_focus = <<>>
          \/ pc = "done" /\ handshakes[Len(handshakes)] = FALSE

InHandshake == pc \in {"cmd_write", "ack_poll"} \/ HandshakeReturned

Returned == IF op = "send" THEN ret[1] ELSE handshakes[Len(handshakes)]

(* The transactions and sleeps of the current or just returned handshake. *)
Segment == SubSeq(log, call_base + 1, Len(log))

(* The command code that handshake was called with. *)
CallCommand ==
    IF op = "send" THEN command
    ELSE LET n == IF HandshakeReturned THEN Len(handshakes)
                  ELSE Len(handshakes) + 1
         IN IF n = 1 THEN 8 ELSE 3

(* C2: a handshake returns true exactly when one of its first 100 reads of *)
(* the ack register (0x3023) returns 0; it stops polling at the first such *)
(* read; when all 100 reads are nonzero it returns false, as a value and   *)
(* not as an error, after exactly 100 ack reads.                           *)
C2_SendTrueIffAckZeroWithin100 ==
    HandshakeReturned =>
        /\ exc = "none"
        /\ Returned \in BOOLEAN
        /\ Returned <=> (hit_at \in 1..100)
        /\ Returned => ReadsOf(Segment, 12323) = hit_at
        /\ ~Returned => (ReadsOf(Segment, 12323) = 100 /\ hit_at = 0)
        /\ op = "send" => ret = << Returned >>

(* A stand-alone handshake whose 100th ack read was the first zero one. *)
C2_Witness == op = "send" /\ pc = "done" /\ ret = <<TRUE>> /\ hit_at = 100

(* C3: in every handshake the bus transactions are, in this order: one     *)
(* write of 0x01 to the ack register 0x3023, one write of the command code *)
(* to the main command register 0x3022, then only reads of the ack         *)
(* register.                                                               *)
C3_HandshakeOrder ==
    InHandshake =>
        LET seg == BusOf(Segment) IN
        /\ Len(seg) >= 1
        /\ seg[1] = W(12323, 1)
        /\ pc = "cmd_write" => Len(seg) = 1
        /\ pc # "cmd_write" => (Len(seg) >= 2 /\ seg[2] = W(12322, CallCommand))
        /\ HandshakeReturned => Len(seg) >= 3
        /\ \A j \in 3..Len(seg) : seg[j] = R(12323)

(* A returned handshake of autofocus that polled more than once. *)
C3_Witness ==
    /\ op = "autofocus" /\ HandshakeReturned /\ Len(handshakes) = 2
    /\ Len(BusOf(Segment)) >= 5

----------------------------------------------------------------------------
IsZoneRead(e) == IsRead(e) /\ e[2] \in 12324..12328

MainWrites == SelectSeq(log, LAMBDA e : IsWrite(e) /\ e[2] = 12322)

(* C4: when either handshake of autofocus returned false, autofocus        *)
(* returns the five-element all-zero result and reads no zone register     *)
(* (0x3024..0x3028).                                                       *)
C4_FailedHandshakeGivesZeros ==
    (op = "autofocus" /\ FALSE \in Range(handshakes)) =>
        /\ pc = "done"
        /\ exc = "none"
        /\ ret = <<0, 0, 0, 0, 0>>
        /\ \A j \in DOMAIN log : ~IsZoneRead(log[j])

(* The release succeeded and the trigger timed out. *)
C4_Witness ==
    op = "autofocus" /\ pc = "done" /\ handshakes = <<TRUE, FALSE>>

(* C5: when the RELEASE_FOCUS handshake of autofocus returned false, the   *)
(* only command written to the main command register is RELEASE_FOCUS      *)
(* (0x08) and TRIGGER_AUTOFOCUS (0x03) is never written; any write of      *)
(* TRIGGER_AUTOFOCUS comes after a RELEASE_FOCUS handshake returned true.  *)
C5_NoTriggerAfterFailedRelease ==
    op = "autofocus" =>
        LET mw == MainWrites IN
        /\ Len(mw) <= 2
        /\ Len(mw) >= 1 => mw[1] = W(12322, 8)
        /\ Len(mw) = 2 =>
               /\ mw[2] = W(12322, 3)
               /\ handshakes # <<>> /\ handshakes[1] = TRUE
               /\ log[2] = W(12322, 8)
               /\ log[3] = R(12323)
               /\ \A k \in 1..3 : log[k] # W(12322, 3)
        /\ (handshakes # <<>> /\ handshakes[1] = FALSE) =>
               (pc = "done" /\ mw = << W(12322, 8) >>)

(* The release handshake timed out. *)
C5_Witness == op = "autofocus" /\ pc = "done" /\ handshakes = <<FALSE>>

(* C6: when both handshakes of autofocus returned true, autofocus reads    *)
(* the zone registers 0x3024..0x3028 once each, in ascending order, as its *)
(* last five bus transactions, and returns the five values in that order.  *)
C6_ZonesReadInOrder ==
    (op = "autofocus" /\ pc = "done" /\ handshakes = <<TRUE, TRUE>>) =>
        /\ SelectSeq(log, IsZoneRead) =
               << R(12324), R(12325), R(12326), R(12327), R(12328) >>
        /\ SubSeq(log, Len(log) - 4, Len(log)) = SelectSeq(log, IsZoneRead)
        /\ ret = << regs[12324], regs[12325], regs[12326], regs[12327],
                    regs[12328] >>
        /\ ret = zone_focus

(* Both handshakes cleared on the first poll and the zones hold 0,3,0,0,7. *)
C6_Witness ==
    /\ op = "autofocus" /\ pc = "done" /\ handshakes = <<TRUE, TRUE>>
    /\ ReadsOf(log, 12323) = 2
    /\ ret = <<0, 3, 0, 0, 7>>

----------------------------------------------------------------------------
(* C7: with any sensor other than "OV5640" attached, a call of the loader  *)
(* ends at once with the unsupported-sensor error, with no register write, *)
(* no register read and no delay, and leaves the register file as it was.  *)
C7_UnsupportedSensorNoTraffic ==
    [][ ( /\ sensor_name # "OV5640"
          /\ pc = "done"
          /\ op' = "load"
          /\ <<op, pc, firmware, ret, exc, log>>' # <<op, pc, firmware, ret, exc, log>> )
        => ( /\ pc' = "done"
             /\ exc' = "UnsupportedSensor"
             /\ log' = <<>>
             /\ regs' = regs ) ]_vars

(* A three-byte image was refused. *)
C7_Witness ==
    /\ sensor_name # "OV5640" /\ op = "load" /\ pc = "done"
    /\ exc = "UnsupportedSensor" /\ Len(firmware) = 3

----------------------------------------------------------------------------
IsImageWrite(e) == IsWrite(e) /\ e[2] >= 32768 /\ e[2] < 65535

(* C8: a load of an image of n bytes issues exactly n instruction-memory   *)
(* writes, the i-th (from 0) of image[i] to 0x8000 + i, in ascending       *)
(* order, right after the single reset write 0x3000 := 0x20 and before the *)
(* first write of the finalization sequence.                               *)
C8_ImageStreamedInOrder ==
    (LoadRan /\ pc # "reset") =>
        LET n == Len(firmware)
            iw == SelectSeq(log, IsImageWrite)
        IN /\ log[1] = W(12288, 32)
           /\ \A j \in 2..Len(log) : log[j] # W(12288, 32)
           /\ Len(iw) = (IF pc = "stream" THEN idx ELSE n)
           /\ \A i \in 1..Len(iw) :
                  /\ iw[i] = W(32768 + (i - 1), firmware[i])
                  /\ log[i + 1] = iw[i]

(* The image 0x10, 0x20, 0x30 was loaded and the coprocessor went idle. *)
C8_Witness ==
    LoadDone /\ exc = "none" /\ firmware = <<16, 32, 48>>

(* C9: a load that passed the sensor check applies the whole finalization  *)
(* sequence in its declared order (0x3022..0x3028 := 0x00, 0x3029 := 0x7F, *)
(* 0x3000 := 0x00 last) before its first read of the status register, and  *)
(* issues no write after that read.                                        *)
C9_FinalizationBeforePolling ==
    LoadRan =>
        LET n == Len(firmware)
            fin == << W(12322, 0), W(12323, 0), W(12324, 0), W(12325, 0),
                      W(12326, 0), W(12327, 0), W(12328, 0), W(12329, 127),
                      W(12288, 0) >>
        IN /\ pc \in {"reset", "stream", "list"} =>
                 /\ \A j \in DOMAIN log : IsWrite(log[j])
                 /\ Len(log) <= n + 10
           /\ pc = "list" => SubSeq(log, n + 2, Len(log)) = SubSeq(fin, 1, idx \div 2)
           /\ pc \in {"poll", "done"} =>
                 /\ SubSeq(log, n + 2, n + 10) = fin
                 /\ \A j \in (n + 11)..Len(log) : ~IsWrite(log[j])
                 /\ pc = "done" => ReadsOf(log, 12329) >= 1

(* A load in its polling loop, several status reads after finalization. *)
C9_Witness ==
    LoadRan /\ pc = "poll" /\ Len(firmware) = 2 /\ ReadsOf(log, 12329) = 3

----------------------------------------------------------------------------
RECURSIVE ExpectedOfList(_)
(* What a flat list of (address, value) pairs asks for, pair by pair. *)
ExpectedOfList(l) ==
    IF Len(l) < 2 THEN <<>>
    ELSE << IF l[1] = 65535 THEN D(l[2]) ELSE W(l[1], l[2]) >>
         \o ExpectedOfList(SubSeq(l, 3, Len(l)))

(* C10: write_camera_list handles the pairs of its list in order: a pair   *)
(* whose address is the sentinel 0xFFFF gives one delay of exactly the     *)
(* paired value in milliseconds and no register write (never a write to    *)
(* 0xFFFF); any other pair gives exactly one write of value to address.    *)
C10_ListAppliedInOrder ==
    op = "list" =>
        /\ log = ExpectedOfList(IF pc = "done" THEN reg_list
                                ELSE SubSeq(reg_list, 1, idx))
        /\ \A j \in DOMAIN log : ~(IsWrite(log[j]) /\ log[j][2] = 65535)
        /\ regs[65535] = 0

(* A list with a 300 ms delay between two writes was applied. *)
C10_Witness ==
    /\ op = "list" /\ pc = "done"
    /\ reg_list = <<12288, 32, 65535, 300, 12322, 0>>
    /\ log = << W(12288, 32), D(300), W(12322, 0) >>

----------------------------------------------------------------------------
InitialValue(a) == IF a = 12329 THEN 126 ELSE 0

(* C11: a stand-alone write of value to addr followed by a read of addr     *)
(* returns value, whatever reads, writes to other addresses and            *)
(* transactions of other bus users come between; and a write changes no    *)
(* register but addr: every register holds the value last written to it,   *)
(* or its initial value when it was never written.                         *)
C11_WriteThenReadRoundTrip ==
    /\ (op = "read" /\ pc = "done" /\ arg_reg \in DOMAIN written) =>
           ret = << written[arg_reg] >>
    /\ \A a \in DOMAIN regs :
           regs[a] = IF a \in DOMAIN written THEN written[a]
                     ELSE InitialValue(a)

(* 0x3022 read back as 0xFF after 0x5A was written to 0x8000 as well. *)
C11_Witness ==
    /\ op = "read" /\ pc = "done" /\ arg_reg = 12322
    /\ DOMAIN written = {12322, 32768}
    /\ written[12322] = 255 /\ written[32768] = 90
    /\ ret = <<255>>

----------------------------------------------------------------------------
IsFailed(e) == e[1] = "x"

(* C12: a bus-level failure of a register transaction inside load, a       *)
(* stand-alone handshake or autofocus ends the operation at once with that *)
(* error: the failed transaction is the last entry of its log and the only *)
(* failed one (no retry, no further transaction), no value is returned,    *)
(* and autofocus does not turn it into its all-zero result.                *)
C12_TransportErrorPropagates ==
    /\ exc = "TransportError" =>
           /\ pc = "done"
           /\ ret = <<>>
           /\ log # <<>>
           /\ IsFailed(log[Len(log)])
    /\ \A j \in DOMAIN log :
           IsFailed(log[j]) => (j = Len(log) /\ exc = "TransportError")

(* autofocus whose third zone read failed, after both handshakes. *)
C12_Witness ==
    /\ op = "autofocus" /\ exc = "TransportError"
    /\ handshakes = <<TRUE, TRUE>>
    /\ log[Len(log)] = X(12326)

----------------------------------------------------------------------------
(* C13: a stand-alone handshake returns true only if the coprocessor       *)
(* completed the command written to 0x3022 in this very call: a clearing   *)
(* of the ack register that belongs to an earlier, still pending command   *)
(* and lands between the ack write and the command write of this call does *)
(* not make it return true.                                                *)
C13_TrueOnlyIfOwnCommandCompleted ==
    (op = "send" /\ pc = "done" /\ ret = <<TRUE>>) => served

----------------------------------------------------------------------------
Ready == {112, 0, 16}

(* C14, as claimed: no command code is written to 0x3022 while the status  *)
(* register holds STARTUP or FIRMWARE_BAD.                                 *)
C14_NoCommandUnlessReady ==
    [][ (pc = "cmd_write" /\ pc' = "ack_poll" /\ regs'[12322] = command)
        => regs[12329] \in Ready ]_vars

(* C14, amended: the command path does not consult the coprocessor status: *)
(* a stand-alone handshake and autofocus never read the status register    *)
(* 0x3029, and every handshake that got past its command write has written *)
(* its command code to 0x3022, also while the status is STARTUP.           *)
C14_CommandsWrittenWhateverStatus ==
    op \in {"send", "autofocus"} =>
        /\ \A j \in DOMAIN log : log[j] # R(12329)
        /\ (pc = "ack_poll" \/ HandshakeReturned) =>
               /\ W(12322, CallCommand) \in Range(Segment)
               /\ regs[12322] = CallCommand

(* AUTO_AUTOFOCUS sent and timed out with the status still STARTUP. *)
C14_Witness ==
    /\ op = "send" /\ pc = "done" /\ command = 4 /\ ret = <<FALSE>>
    /\ regs[12329] = 126
    /\ MainWrites = << W(12322, 4) >>

----------------------------------------------------------------------------
(* C15: with the other users of the bus going through its lock, the        *)
(* address write and the data read of read_camera_register happen within   *)
(* one acquisition of the bus: the lock is held from before the address    *)
(* write until after the data read, no transaction of another user comes   *)
(* between them, and the value returned is the one stored at the address   *)
(* written in the same call.                                               *)
C15_ReadPhasesInOneAcquisition ==
    /\ CameraHoldsBus => (bus_lock = "camera" /\ other_pc = "idle")
    /\ pc = "r_readinto" =>
           (dev_ptr = arg_reg /\ log = << ACQ, A(arg_reg) >>)
    /\ (op = "read" /\ pc = "done") =>
           /\ log = << ACQ, A(arg_reg), R(arg_reg), REL >>
           /\ ret = << regs[arg_reg] >>

(* 0x5A read from 0x3022 and the bus not yet released. *)
C15_Witness ==
    /\ op = "read" /\ pc = "r_exit" /\ arg_reg = 12322
    /\ buf[1] = 90 /\ bus_lock = "camera"
    /\ log = << ACQ, A(12322), R(12322) >>

----------------------------------------------------------------------------
IsStatusWrite(e) == IsWrite(e) /\ e[2] = 12329

Finalized == LoadRan /\ (pc = "poll" \/ (pc = "done" /\ exc # "TransportError"))

(* C16, as claimed: no operation of the control path writes to the status  *)
(* register 0x3029.                                                        *)
C16_NoWriteToStatus ==
    \A j \in DOMAIN log : ~IsStatusWrite(log[j])

(* C16, amended: the only write the control path issues to the status      *)
(* register 0x3029 is the write 0x3029 := 0x7F of the finalization         *)
(* sequence, once in every load that gets through finalization, as its     *)
(* last write but one; a handshake, autofocus and autofocus_status never   *)
(* write it, so every other change of the status is the coprocessor's.     *)
C16_StatusWrittenOnlyByFinalization ==
    /\ \A j \in DOMAIN log :
           IsStatusWrite(log[j]) =>
               (op = "load" /\ log[j] = W(12329, 127) /\ j = Len(firmware) + 9)
    /\ Finalized => log[Len(firmware) + 9] = W(12329, 127)

(* A load of two bytes timed out; its tenth write had set the status. *)
C16_Witness ==
    /\ LoadDone /\ exc = "LoadTimeout" /\ Len(firmware) = 2
    /\ log[11] = W(12329, 127)

----------------------------------------------------------------------------
(* The writes of a first load of image fw. *)
FirstLoadWrites(fw) ==
    << W(12288, 32) >>
    \o [i \in 1..Len(fw) |-> W(32768 + (i - 1), fw[i])]
    \o << W(12322, 0), W(12323, 0), W(12324, 0), W(12325, 0), W(12326, 0),
          W(12327, 0), W(12328, 0), W(12329, 127), W(12288, 0) >>

(* C17: a load can be called again: whatever earlier loads, successful or  *)
(* timed out, left in the registers and in instruction memory, a load that *)
(* has reached its polling has issued the reset write, the whole image and *)
(* the whole finalization sequence, the same writes as a first load of     *)
(* that image; nothing is skipped as already loaded.                       *)
C17_ReloadRepeatsAllWrites ==
    (LoadRan /\ pc \in {"poll", "done"} /\ exc # "TransportError") =>
        SelectSeq(log, IsWrite) = FirstLoadWrites(firmware)

(* The image 0x10, 0x20 loaded over a memory that already held it, with    *)
(* the third cell left by a longer image before.                           *)
C17_Witness ==
    /\ LoadDone /\ exc = "none" /\ firmware = <<16, 32>>
    /\ regs[32770] = 48
    /\ Len(SelectSeq(log, IsWrite)) = 12

----------------------------------------------------------------------------
(* The addresses a load of image fw is documented to write. *)
Documented(fw) ==
    {12288} \cup (12322..12329) \cup { 32768 + i : i \in 0..(Len(fw) - 1) }

(* C18: a load writes only to the reset register 0x3000, to instruction    *)
(* memory 0x8000 .. 0x8000 + len(image) - 1 and to the finalization        *)
(* addresses 0x3022..0x3029: from its call to its end, every register      *)
(* outside these keeps its value.                                          *)
C18_LoadWritesOnlyDocumented ==
    [][ op' = "load" =>
          /\ \A a \in DOMAIN regs \ Documented(firmware') : regs'[a] = regs[a]
          /\ \A j \in DOMAIN log' :
                 IsWrite(log'[j]) => log'[j][2] \in Documented(firmware') ]_vars

(* A one-byte image loaded: the two cells above it still hold the bytes of *)
(* a longer image loaded before.                                           *)
C18_Witness ==
    /\ LoadDone /\ exc = "none" /\ firmware = <<16>>
    /\ regs[32768] = 16 /\ regs[32769] = 48 /\ regs[32770] = 16

----------------------------------------------------------------------------
Writes == Len(SelectSeq(log, IsWrite))

Reads == Len(SelectSeq(log, IsRead))

(* An upper bound of the steps the method that is running still has. *)
StepsLeft ==
    CASE pc = "done" -> 0
      [] pc = "status" -> 1
      [] pc = "zones" -> 5 - Len(zone_focus)
      [] pc = "poll" -> 100 - idx
      [] pc = "list" -> ((Len(reg_list) - idx) \div 2) + 1 + 100
      [] pc = "stream" -> (Len(firmware) - idx) + 1 + 10 + 100
      [] pc = "reset" -> 1 + Len(firmware) + 1 + 10 + 100
      [] pc \in {"ack_clear", "cmd_write", "ack_poll"} ->
            (CASE pc = "ack_clear" -> 102
               [] pc = "cmd_write" -> 101
               [] pc = "ack_poll" -> 100 - idx)
            + (IF op = "autofocus"
               THEN (IF handshakes = <<>> THEN 102 + 5 ELSE 5)
               ELSE 0)

(* The method that is running took a step. *)
HostStepped ==
    /\ pc # "done"
    /\ \/ pc' # pc
       \/ idx' # idx
       \/ Len(log') # Len(log)

(* C19: every operation ends, and within a bounded number of bus           *)
(* transactions: every step of a running operation brings it nearer to its *)
(* end, and it ends after at most 1 + len(image) + 9 writes and 100 status *)
(* reads for a load, 2 writes and 100 ack reads for a stand-alone          *)
(* handshake, 4 writes, 200 ack reads and 5 zone reads for autofocus.      *)
C19_OperationsBounded ==
    /\ [][ HostStepped => (StepsLeft' < StepsLeft /\ StepsLeft' >= 0) ]_vars
    /\ [](pc = "done" =>
            LET w == Writes
                r == Reads
                acks == ReadsOf(log, 12323)
            IN /\ op = "load" =>
                      (w <= 1 + Len(firmware) + 9 /\ r <= 100 /\ acks = 0)
               /\ op = "send" =>
                      (w <= 2 /\ r <= 100 /\ acks = r)
               /\ op = "autofocus" =>
                      (w <= 4 /\ acks <= 200 /\ r - acks <= 5))

(* autofocus that needed every one of its 209 transactions. *)
C19_Witness ==
    /\ op = "autofocus" /\ pc = "done" /\ exc = "none"
    /\ Writes = 4 /\ ReadsOf(log, 12323) = 200
    /\ Len(SelectSeq(log, IsZoneRead)) = 5

----------------------------------------------------------------------------
(* C20: every write of a load carries a 16-bit address and bytes in        *)
(* 0..255: for every image, whatever its length, the byte of every index i *)
(* is written to 0x8000 + i, which is at most 0xFFFF, as the transaction   *)
(* (addr >> 8, addr & 0xFF, value); no address overflows 16 bits or wraps  *)
(* around.                                                                 *)
C20_LoadAddressesFit ==
    (op = "write" /\ arg_reg >= 32768) =>
        /\ arg_reg <= 65535
        /\ exc # "ValueError"
        /\ pc # "w_enter" =>
               buf = << arg_reg \div 256, arg_reg % 256, arg_value >>
        /\ \A j \in DOMAIN log :
               IsWrite(log[j]) => log[j] = W(arg_reg, arg_value)

----------------------------------------------------------------------------
CommandRegs == {12322, 12323}

CommandPathOps == {"send", "autofocus", "status"}

(* C21: the command path leaves the loaded firmware and the control        *)
(* register alone: whatever handshakes, autofocus calls and status queries *)
(* are made, every write goes to the ack register 0x3023 or to the main    *)
(* command register 0x3022; a status query and the reading of the zone     *)
(* registers write nothing; no step of a method changes the control        *)
(* register 0x3000, a zone register or the status register.                *)
C21_CommandPathWritesOnlyAckAndMain ==
    /\ [](op \in CommandPathOps =>
            /\ \A j \in DOMAIN log :
                   IsWrite(log[j]) => log[j][2] \in CommandRegs
            /\ op = "status" => Writes = 0
            /\ (op = "autofocus" /\ (pc = "zones" \/ zone_focus # <<>>)) =>
                   Writes = 4)
    /\ [][ (op \in CommandPathOps /\ HostStepped) =>
             \A a \in Addrs \ CommandRegs : regs'[a] = regs[a] ]_vars

(* autofocus read its five zones after exactly these four writes, with the *)
(* control register and the status as they were before any call.           *)
C21_Witness ==
    /\ op = "autofocus" /\ pc = "done" /\ Len(zone_focus) = 5
    /\ SelectSeq(log, IsWrite) =
           << W(12323, 1), W(12322, 8), W(12323, 1), W(12322, 3) >>
    /\ regs[12288] = 0 /\ regs[12329] = 126

----------------------------------------------------------------------------
(* The step appends one read of register a to the log, as its first entry. *)
FreshRead(a) ==
    /\ Len(log') > Len(log)
    /\ log'[Len(log) + 1] = R(a)
    /\ ReadsOf(log', a) = ReadsOf(log, a) + 1

(* The method that is running took a step and its transaction went through. *)
Polled == HostStepped /\ exc' # "TransportError"

(* The handshake in progress returns true with this step. *)
ReturnsTrue ==
    IF op = "send" THEN ret' = <<TRUE>>
    ELSE handshakes' = Append(handshakes, TRUE)

(* C22: status and ack values are never kept from one poll to the next:    *)
(* every status query and every iteration of the poll loops of the loader  *)
(* and of the handshake issues one read of its register (0x3029, resp.     *)
(* 0x3023) and decides on the value the register holds at that read; the   *)
(* reads issued so far are as many as the iterations made so far.          *)
C22_StatusAndAckReadFresh ==
    /\ [][ /\ (pc = "poll" /\ Polled) =>
                 /\ FreshRead(12329)
                 /\ (pc' = "done" /\ exc' = "none") <=> (regs[12329] = 112)
           /\ (pc = "ack_poll" /\ Polled) =>
                 /\ FreshRead(12323)
                 /\ ReturnsTrue <=> (regs[12323] = 0)
           /\ (pc = "status" /\ Polled) =>
                 /\ FreshRead(12329)
                 /\ ret' = << regs[12329] >> ]_vars
    /\ [](/\ pc = "poll" => ReadsOf(log, 12329) = idx
          /\ pc = "ack_poll" => ReadsOf(Segment, 12323) = idx)

(* A stand-alone handshake that returned true on its third read of the ack *)
(* register, the two reads before it having returned a nonzero value.      *)
C22_Witness ==
    /\ op = "send" /\ pc = "done" /\ ret = <<TRUE>>
    /\ Segment = << W(12323, 1), W(12322, command), R(12323), D(10),
                    R(12323), D(10), R(12323) >>

----------------------------------------------------------------------------
(* The stored index i is the value v that was assigned, wrapped modulo the *)
(* table length n.                                                         *)
WrappedTo(i, v, n) == i \in 0..(n - 1) /\ (v - i) % n = 0

(* C23: whatever integers are assigned to the settings, negative and       *)
(* too-large ones included, the stored mode lies in 0..3, the stored       *)
(* effect in 0..7 and the stored resolution in 0..12, the NVM byte of each *)
(* of the three equals the stored index, led_level lies in 0..4 and        *)
(* led_color in 0..7; the index the last assignment stored is the assigned *)
(* value modulo the table length.                                          *)
C23_SettingsStayInTheirTables ==
    /\ mode \in 0..3
    /\ effect \in 0..7
    /\ resolution \in 0..12
    /\ nvm[3] = mode
    /\ nvm[2] = effect
    /\ nvm[1] = resolution
    /\ led_level \in 0..4
    /\ led_color \in 0..7
    /\ assigned[1] = "mode" => WrappedTo(mode, assigned[2], 4)
    /\ assigned[1] = "effect" => WrappedTo(effect, assigned[2], 8)
    /\ assigned[1] = "resolution" => WrappedTo(resolution, assigned[2], 13)
    /\ assigned[1] = "led_level" => WrappedTo(led_level, assigned[2], 5)
    /\ assigned[1] = "led_color" => WrappedTo(led_color, assigned[2], 8)

(* The resolution assigned -14, below minus the table length, after the    *)
(* effect was set beyond its table and the mode to STOP: index 12 stored   *)
(* and persisted.                                                          *)
C23_Witness ==
    /\ assigned = <<"resolution", -14>>
    /\ resolution = 12 /\ nvm[1] = 12 /\ res_label = "2560x1920"
    /\ effect = 6 /\ nvm[2] = 6
    /\ mode = 3 /\ nvm[3] = 3 /\ stop_motion_frame = 0
    /\ led_level = 4 /\ led_color = 7

====
